---- MODULE Spec2Model ----
(***************************************************************************)
(* Leit temperature converter (scripts/python/leit.py).                    *)
(*                                                                         *)
(* The program is a set of pure functions over Python floats and strings   *)
(* plus three CLI commands.  Python floats are IEEE-754 binary64 values;   *)
(* they are modelled bit-exactly (53-bit significand, round to nearest,    *)
(* ties to even, gradual underflow, overflow to infinity, NaN), because    *)
(* several properties of the program (identity without drift, the 1e-9     *)
(* tolerance of the round trips, the -1e-9 domain threshold) are           *)
(* statements about that arithmetic.  TLC integers are 32 bits wide, so    *)
(* significands are kept as little-endian sequences of 15-bit limbs.       *)
(* Strings are sequences of one-character strings.                         *)
(***************************************************************************)
EXTENDS Integers, Sequences, FiniteSets, TLC

Max(a, b) == IF a >= b THEN a ELSE b
Min(a, b) == IF a <= b THEN a ELSE b

(***************************************************************************)
(* Natural numbers of arbitrary size: little-endian limbs in base 2^15,    *)
(* no leading (high) zero limb; zero is the empty sequence.                *)
(***************************************************************************)
LimbBits == 15
BASE == 2^LimbBits

Limb(a, i) == IF i >= 1 /\ i <= Len(a) THEN a[i] ELSE 0

RECURSIVE BTrim(_)
BTrim(a) ==
    IF a = <<>> THEN a
    ELSE IF a[Len(a)] = 0 THEN BTrim(SubSeq(a, 1, Len(a) - 1)) ELSE a

BFromInt(n) ==
    IF n = 0 THEN <<>>
    ELSE IF n < BASE THEN <<n>>
    ELSE IF n < BASE * BASE THEN <<n % BASE, n \div BASE>>
    ELSE <<n % BASE, (n \div BASE) % BASE, n \div (BASE * BASE)>>

\* the limbs from i on of a + b, s being limb i of a plus limb i of b plus
\* the carry into limb i
RECURSIVE BAddC(_, _, _, _)
BAddC(a, b, i, s) ==
    IF i > Len(a) /\ i > Len(b) /\ s = 0 THEN <<>>
    ELSE <<s % BASE>>
         \o BAddC(a, b, i + 1, Limb(a, i + 1) + Limb(b, i + 1) + (s \div BASE))

BAdd(a, b) ==
    IF a = <<>> THEN b
    ELSE IF b = <<>> THEN a
    ELSE BAddC(a, b, 1, a[1] + b[1])

\* the limbs from i on of a - b, s being limb i of a minus limb i of b
\* minus the borrow out of limb i - 1 (s \div BASE is -1 on a borrow)
RECURSIVE BSubC(_, _, _, _)
BSubC(a, b, i, s) ==
    IF i > Len(a) THEN <<>>
    ELSE <<s % BASE>>
         \o BSubC(a, b, i + 1, Limb(a, i + 1) - Limb(b, i + 1) + (s \div BASE))

\* a - b, for a >= b
BSub(a, b) == BTrim(BSubC(a, b, 1, Limb(a, 1) - Limb(b, 1)))

RECURSIVE BCmpAt(_, _, _)
BCmpAt(a, b, i) ==
    IF i = 0 THEN 0
    ELSE IF a[i] < b[i] THEN -1
    ELSE IF a[i] > b[i] THEN 1
    ELSE BCmpAt(a, b, i - 1)

\* -1, 0 or 1 as a < b, a = b, a > b
BCmp(a, b) ==
    IF Len(a) < Len(b) THEN -1
    ELSE IF Len(a) > Len(b) THEN 1
    ELSE BCmpAt(a, b, Len(a))

\* the limbs from i on of a * k, s being limb i of a times k plus the carry
RECURSIVE BMulSmallC(_, _, _, _)
BMulSmallC(a, k, i, s) ==
    IF i > Len(a) /\ s = 0 THEN <<>>
    ELSE <<s % BASE>>
         \o BMulSmallC(a, k, i + 1, Limb(a, i + 1) * k + (s \div BASE))

\* a * k, for 0 <= k < BASE
BMulSmall(a, k) ==
    IF k = 0 \/ a = <<>> THEN <<>> ELSE BMulSmallC(a, k, 1, a[1] * k)

Zeros(n) == [i \in 1..n |-> 0]

\* a times the limbs from i on of b, for a > 0
RECURSIVE BMulAt(_, _, _)
BMulAt(a, b, i) ==
    IF i > Len(b) THEN <<>>
    ELSE BAdd(Zeros(i - 1) \o BMulSmall(a, b[i]), BMulAt(a, b, i + 1))

BMul(a, b) == IF a = <<>> \/ b = <<>> THEN <<>> ELSE BMulAt(a, b, 1)

\* a * 2^n
BShl(a, n) ==
    IF a = <<>> THEN <<>>
    ELSE Zeros(n \div LimbBits) \o BMulSmall(a, 2^(n % LimbBits))

\* floor(a / 2^n)
BShr(a, n) ==
    LET d == n \div LimbBits
        p == 2^(n % LimbBits)
    IN  IF d >= Len(a) THEN <<>>
        ELSE BTrim([i \in 1..(Len(a) - d) |->
                      (a[i + d] \div p) + (Limb(a, i + d + 1) % p) * (BASE \div p)])

\* bit i of a, bit 0 being the least significant
BBit(a, i) == IF i < 0 THEN 0 ELSE (Limb(a, (i \div LimbBits) + 1) \div 2^(i % LimbBits)) % 2

\* TRUE iff the n low bits of a are all zero
BLowZero(a, n) ==
    /\ \A i \in 1..Min(n \div LimbBits, Len(a)) : a[i] = 0
    /\ Limb(a, (n \div LimbBits) + 1) % 2^(n % LimbBits) = 0

RECURSIVE IntBitLen(_)
IntBitLen(n) == IF n = 0 THEN 0 ELSE 1 + IntBitLen(n \div 2)

BBitLen(a) == IF a = <<>> THEN 0 ELSE LimbBits * (Len(a) - 1) + IntBitLen(a[Len(a)])

RECURSIVE IntTz(_)
IntTz(n) == IF n % 2 = 1 THEN 0 ELSE 1 + IntTz(n \div 2)

RECURSIVE BTzAt(_, _)
BTzAt(a, i) == IF a[i] = 0 THEN LimbBits + BTzAt(a, i + 1) ELSE IntTz(a[i])

\* number of trailing zero bits of a > 0
BTz(a) == BTzAt(a, 1)

\* the largest digit not above est whose product with b is at most r
RECURSIVE QFix(_, _, _)
QFix(r, b, est) ==
    IF BCmp(BMulSmall(b, est), r) <= 0 THEN est ELSE QFix(r, b, est - 1)

\* quotient digit floor(r / b) for r < b * BASE, where the top limb of b is
\* at least BASE / 2: the estimate from the two top limbs of r is at most
\* 2 too large (Knuth, TAOCP 4.3.1, Theorem B)
QDigit(r, b) ==
    IF r = <<>> THEN 0
    ELSE QFix(r, b, Min(BASE - 1,
                        (Limb(r, Len(b) + 1) * BASE + Limb(r, Len(b))) \div b[Len(b)]))

\* the end of a step of the long division by b: the quotient q so far gets
\* the digit d, the partial remainder r loses d * b
BDivOut(b, q, r, d) ==
    IF q = <<>> /\ d = 0 THEN <<(<<>>), r>>
    ELSE <<(<<d>> \o q), BSub(r, BMulSmall(b, d))>>

BDivDigit(b, q, r) == BDivOut(b, q, r, QDigit(r, b))

\* the step that brings the limb x down to the <<quotient, remainder>> prev
BDivStep(x, b, prev) == BDivDigit(b, prev[1], BTrim(<<x>> \o prev[2]))

\* schoolbook long division of the limbs Len(a)..i of a by b:
\* <<quotient, remainder>>
RECURSIVE BDivAt(_, _, _)
BDivAt(a, b, i) ==
    IF i > Len(a) THEN <<(<<>>), (<<>>)>>
    ELSE BDivStep(a[i], b, BDivAt(a, b, i + 1))

\* the result qr of a division scaled by 2^k, scaled back
BDivScaled(qr, k) == <<qr[1], BShr(qr[2], k)>>

\* <<floor(a / b), a mod b>>, for b > 0: both are first scaled by 2^k so
\* that the top limb of b is at least BASE / 2
BDivBy(a, b, k) == BDivScaled(BDivAt(BShl(a, k), BShl(b, k), 1), k)

BDivMod(a, b) ==
    IF a = <<>> THEN <<(<<>>), (<<>>)>>
    ELSE BDivBy(a, b, LimbBits - IntBitLen(b[Len(b)]))

\* h * h, times 10 for an odd exponent
BPowStep(h, odd) == BMulSmall(BMul(h, h), IF odd = 1 THEN 10 ELSE 1)

RECURSIVE BPow10(_)
BPow10(n) == IF n = 0 THEN <<1>> ELSE BPowStep(BPow10(n \div 2), n % 2)

(***************************************************************************)
(* Python float: IEEE-754 binary64.  A finite value is                     *)
(* (-1)^sgn * man * 2^exp with man odd (or man = 0, exp = 0 for a zero),   *)
(* so that equal records are equal numbers.                                *)
(***************************************************************************)
MantBits == 53
ExpMin == -1074
ExpMax == 1024

FZero(s) == [cls |-> "fin", sgn |-> s, man |-> <<>>, exp |-> 0]
FInf(s) == [cls |-> "inf", sgn |-> s, man |-> <<>>, exp |-> 0]
FNaN == [cls |-> "nan", sgn |-> 0, man |-> <<>>, exp |-> 0]

IsZero(x) == x.cls = "fin" /\ x.man = <<>>

\* m * 2^e with the tz trailing zero bits of m moved into the exponent
FOdd(s, m, e, tz) == [cls |-> "fin", sgn |-> s, man |-> BShr(m, tz), exp |-> e + tz]

\* canonical record of (-1)^s * m * 2^e, m already within the precision
FCanon(s, m, e) ==
    IF m = <<>> THEN FZero(s)
    ELSE IF BBitLen(m) + e > ExpMax THEN FInf(s)
    ELSE FOdd(s, m, e, BTz(m))

\* the kept bits q rounded up when the dropped bits are above a half, or
\* are a half and q is odd
FRoundUp(s, q, e, half, rest) ==
    FCanon(s, IF half /\ (rest \/ BBit(q, 0) = 1) THEN BAdd(q, <<1>>) ELSE q, e)

\* FRound dropping the sh >= 0 low bits of m
FRoundAt(s, m, e, sticky, sh) ==
    FRoundUp(s, BShr(m, sh), e + sh, BBit(m, sh - 1) = 1,
             sticky \/ ~BLowZero(m, sh - 1))

\* (-1)^s * (m + f) * 2^e rounded to the nearest binary64, ties to even,
\* where 0 <= f < 1 and sticky says whether f > 0
FRound(s, m, e, sticky) ==
    FRoundAt(s, m, e, sticky, Max(0, Max(BBitLen(m) - MantBits, ExpMin - e)))

\* the <<quotient, remainder>> qr of a division as a float
FRatioOut(s, qr, e) == FRound(s, qr[1], e, qr[2] # <<>>)

\* FRatio with n scaled by 2^sh, which leaves the quotient at least
\* MantBits + 2 bits
FRatioAt(s, n, en, d, sh) == FRatioOut(s, BDivMod(BShl(n, sh), d), en - sh)

\* n * 2^en / d correctly rounded, for naturals n, d with d > 0
FRatio(s, n, en, d) ==
    IF n = <<>> THEN FZero(s)
    ELSE FRatioAt(s, n, en, d, Max(0, MantBits + 3 + BBitLen(d) - BBitLen(n)))

FNeg(x) == IF x.cls = "nan" THEN x ELSE [x EXCEPT !.sgn = 1 - x.sgn]

FAbs(x) == IF x.cls = "nan" THEN x ELSE [x EXCEPT !.sgn = 0]

\* position of the top bit of a finite non-zero value
FTop(x) == BBitLen(x.man) + x.exp

\* comparison of the magnitudes with top bits at tx and ty
MagCmpAt(x, y, tx, ty, e) ==
    IF tx < ty THEN -1
    ELSE IF tx > ty THEN 1
    ELSE BCmp(BShl(x.man, x.exp - e), BShl(y.man, y.exp - e))

\* comparison of the magnitudes of two finite values: -1, 0 or 1
MagCmp(x, y) ==
    IF x.man = <<>> THEN (IF y.man = <<>> THEN 0 ELSE -1)
    ELSE IF y.man = <<>> THEN 1
    ELSE MagCmpAt(x, y, FTop(x), FTop(y), Min(x.exp, y.exp))

\* x < y for finite values of the same sign that are not both zero
FLtSigned(x, y, c) == IF x.sgn = 0 THEN c < 0 ELSE c > 0

\* the Python operator x < y
FLt(x, y) ==
    IF x.cls = "nan" \/ y.cls = "nan" THEN FALSE
    ELSE IF x.cls = "inf" THEN x.sgn = 1 /\ ~(y.cls = "inf" /\ y.sgn = 1)
    ELSE IF y.cls = "inf" THEN y.sgn = 0
    ELSE IF IsZero(x) /\ IsZero(y) THEN FALSE
    ELSE IF x.sgn # y.sgn THEN x.sgn = 1
    ELSE FLtSigned(x, y, MagCmp(x, y))

\* the sum of the signed magnitudes mx and my in units of 2^e, c being 1
\* for equal signs and else the comparison of mx with my
FAddOut(sx, sy, e, mx, my, c) ==
    IF c = 0 THEN FZero(0)
    ELSE FRound(IF c > 0 THEN sx ELSE sy,
                IF sx = sy THEN BAdd(mx, my)
                ELSE IF c > 0 THEN BSub(mx, my) ELSE BSub(my, mx),
                e, FALSE)

FAddCmp(sx, sy, e, mx, my) ==
    FAddOut(sx, sy, e, mx, my, IF sx = sy THEN 1 ELSE BCmp(mx, my))

\* the sum of two finite non-zero values with top bits at tx and ty: an
\* operand below a quarter of the last place of the other one (even across
\* a power of two) does not change it
FAddAt(x, y, tx, ty, e) ==
    IF tx - ty > MantBits + 2 THEN x
    ELSE IF ty - tx > MantBits + 2 THEN y
    ELSE FAddCmp(x.sgn, y.sgn, e, BShl(x.man, x.exp - e), BShl(y.man, y.exp - e))

\* the Python operator x + y
FAdd(x, y) ==
    IF x.cls = "nan" \/ y.cls = "nan" THEN FNaN
    ELSE IF x.cls = "inf"
         THEN (IF y.cls = "inf" /\ y.sgn # x.sgn THEN FNaN ELSE x)
    ELSE IF y.cls = "inf" THEN y
    ELSE IF IsZero(x) /\ IsZero(y)
         THEN FZero(IF x.sgn = 1 /\ y.sgn = 1 THEN 1 ELSE 0)
    ELSE IF IsZero(x) THEN y
    ELSE IF IsZero(y) THEN x
    ELSE FAddAt(x, y, FTop(x), FTop(y), Min(x.exp, y.exp))

\* the Python operator x - y
FSub(x, y) == FAdd(x, FNeg(y))

\* the Python operator x * y
FMul(x, y) ==
    IF x.cls = "nan" \/ y.cls = "nan" THEN FNaN
    ELSE IF x.cls = "inf" \/ y.cls = "inf"
         THEN (IF IsZero(x) \/ IsZero(y) THEN FNaN ELSE FInf((x.sgn + y.sgn) % 2))
    ELSE IF IsZero(x) \/ IsZero(y) THEN FZero((x.sgn + y.sgn) % 2)
    ELSE FRound((x.sgn + y.sgn) % 2, BMul(x.man, y.man), x.exp + y.exp, FALSE)

\* the Python operator x / y for a finite non-zero divisor y (every
\* division of the program divides by K_PER_LT or by the literal 9.0)
FDiv(x, y) ==
    IF x.cls = "nan" THEN FNaN
    ELSE IF x.cls = "inf" THEN FInf((x.sgn + y.sgn) % 2)
    ELSE IF IsZero(x) THEN FZero((x.sgn + y.sgn) % 2)
    ELSE FRatio((x.sgn + y.sgn) % 2, x.man, x.exp - y.exp, y.man)

\* the float literal with decimal digits n (a natural below 2^31) and
\* d digits after the decimal point: n / 10^d correctly rounded
FLit(n, d) == FRatio(0, BFromInt(n), 0, BPow10(d))

(***************************************************************************)
(* Core constants and conversion primitives.                               *)
(***************************************************************************)
K_PER_LT == FDiv(FLit(27315, 2), FLit(160, 1))
ABSOLUTE_ZERO_K == FLit(0, 1)

Unit == {"lt", "k", "c", "f"}

\* variant of lt_to_k: the ratio typed in as the rounded literal 17.07
lt_to_k_RoundedRatio(lt) == FMul(lt, FLit(1707, 2))

lt_to_k(lt) == FMul(lt, K_PER_LT)

k_to_lt(k) == FDiv(k, K_PER_LT)

k_to_c(k) == FSub(k, FLit(27315, 2))

c_to_k(c) == FAdd(c, FLit(27315, 2))

k_to_f(k) == FAdd(FDiv(FMul(k_to_c(k), FLit(90, 1)), FLit(50, 1)), FLit(320, 1))

f_to_k(f) ==
    FAdd(FDiv(FMul(FSub(f, FLit(320, 1)), FLit(50, 1)), FLit(90, 1)), FLit(27315, 2))

lt_to_c(lt) == FSub(lt_to_k(lt), FLit(27315, 2))

c_to_lt(c) == FDiv(FAdd(c, FLit(27315, 2)), K_PER_LT)

lt_to_f(lt) == FAdd(FDiv(FMul(lt_to_c(lt), FLit(90, 1)), FLit(50, 1)), FLit(320, 1))

f_to_lt(f) ==
    FDiv(FAdd(FDiv(FMul(FSub(f, FLit(320, 1)), FLit(50, 1)), FLit(90, 1)),
              FLit(27315, 2)),
         K_PER_LT)

(***************************************************************************)
(* Outcome of a call: a returned value or a raised ValueError whose        *)
(* message is the sequence of the parts of its f-string.                   *)
(***************************************************************************)
Return(v) == [ok |-> TRUE, val |-> v, msg |-> <<>>]
Raise(m) == [ok |-> FALSE, val |-> <<>>, msg |-> m]

BelowZeroMsg == <<"Temperature below absolute zero is not defined.">>

\* the Kelvin hub value of convert for a supported from_unit
ToKelvin(value, from_unit) ==
    IF from_unit = "lt" THEN lt_to_k(value)
    ELSE IF from_unit = "k" THEN value
    ELSE IF from_unit = "c" THEN c_to_k(value)
    ELSE f_to_k(value)

\* the rest of convert once the Kelvin hub value k is known: the domain
\* check, then the conversion to to_unit
FromKelvin(k, to_unit) ==
    IF FLt(k, FSub(ABSOLUTE_ZERO_K, FLit(1, 9)))
    THEN Raise(BelowZeroMsg)
    ELSE IF to_unit = "lt" THEN Return(k_to_lt(k))
    ELSE IF to_unit = "k" THEN Return(k)
    ELSE IF to_unit = "c" THEN Return(k_to_c(k))
    ELSE IF to_unit = "f" THEN Return(k_to_f(k))
    ELSE Raise(<<"Unsupported 'to' unit: ", to_unit>>)

\* variant of convert: the comparison without the 1e-9 tolerance
convert_NoEpsilon(value, from_unit, to_unit) ==
    IF from_unit = to_unit THEN Return(value)
    ELSE IF from_unit \notin {"lt", "k", "c", "f"}
    THEN Raise(<<"Unsupported 'from' unit: ", from_unit>>)
    ELSE LET k == ToKelvin(value, from_unit)
         IN  IF FLt(k, ABSOLUTE_ZERO_K)
             THEN Raise(BelowZeroMsg)
             ELSE IF to_unit = "lt" THEN Return(k_to_lt(k))
             ELSE IF to_unit = "k" THEN Return(k)
             ELSE IF to_unit = "c" THEN Return(k_to_c(k))
             ELSE IF to_unit = "f" THEN Return(k_to_f(k))
             ELSE Raise(<<"Unsupported 'to' unit: ", to_unit>>)

\* variant of convert: no early return for from_unit = to_unit
convert_NoIdentity(value, from_unit, to_unit) ==
    IF from_unit \notin {"lt", "k", "c", "f"}
    THEN Raise(<<"Unsupported 'from' unit: ", from_unit>>)
    ELSE FromKelvin(ToKelvin(value, from_unit), to_unit)

\* variant of convert: a Kelvin target is returned before the domain check
convert_KelvinUnchecked(value, from_unit, to_unit) ==
    IF from_unit = to_unit THEN Return(value)
    ELSE IF from_unit \notin {"lt", "k", "c", "f"}
    THEN Raise(<<"Unsupported 'from' unit: ", from_unit>>)
    ELSE IF to_unit = "k" THEN Return(ToKelvin(value, from_unit))
    ELSE FromKelvin(ToKelvin(value, from_unit), to_unit)

convert(value, from_unit, to_unit) ==
    IF from_unit = to_unit THEN Return(value)
    ELSE IF from_unit \notin {"lt", "k", "c", "f"}
    THEN Raise(<<"Unsupported 'from' unit: ", from_unit>>)
    ELSE FromKelvin(ToKelvin(value, from_unit), to_unit)

(***************************************************************************)
(* Strings are sequences of one-character strings.  The character classes *)
(* are the ASCII part of Python's: \s and str.strip() whitespace, \d       *)
(* digits, and the letters that str.lower() folds.                         *)
(***************************************************************************)
Whitespace == {" ", "\t", "\n", "\r", "\f"}
Digits == <<"0", "1", "2", "3", "4", "5", "6", "7", "8", "9">>
DigitSet == {Digits[i] : i \in 1..10}
Lowers == <<"a", "b", "c", "d", "e", "f", "g", "h", "i", "j", "k", "l", "m", "n", "o", "p", "q", "r", "s", "t", "u", "v", "w", "x", "y", "z">>
Uppers == <<"A", "B", "C", "D", "E", "F", "G", "H", "I", "J", "K", "L", "M", "N", "O", "P", "Q", "R", "S", "T", "U", "V", "W", "X", "Y", "Z">>
LetterSet == {Lowers[i] : i \in 1..26} \cup {Uppers[i] : i \in 1..26}

DigitVal(c) == (CHOOSE i \in 1..10 : Digits[i] = c) - 1

\* str.lower() on one character
LowerChar(c) ==
    IF \E i \in 1..26 : Uppers[i] = c
    THEN Lowers[CHOOSE i \in 1..26 : Uppers[i] = c]
    ELSE c

\* str.lower()
lower(str) == [i \in 1..Len(str) |-> LowerChar(str[i])]

\* str.strip()
strip(str) ==
    IF \A i \in 1..Len(str) : str[i] \in Whitespace THEN <<>>
    ELSE LET a == CHOOSE i \in 1..Len(str) :
                      str[i] \notin Whitespace /\ \A j \in 1..(i - 1) : str[j] \in Whitespace
             b == CHOOSE i \in 1..Len(str) :
                      str[i] \notin Whitespace
                      /\ \A j \in (i + 1)..Len(str) : str[j] \in Whitespace
         IN  SubSeq(str, a, b)

\* str.upper() on the four unit names
upper(u) ==
    IF u = "lt" THEN "LT"
    ELSE IF u = "k" THEN "K"
    ELSE IF u = "c" THEN "C"
    ELSE "F"

\* end of the longest run of characters of class cls that starts at i:
\* the first position j >= i with j past the end or str[j] outside cls
Span(str, i, cls) ==
    CHOOSE j \in i..(Len(str) + 1) :
        /\ \A k \in i..(j - 1) : str[k] \in cls
        /\ (j = Len(str) + 1 \/ str[j] \notin cls)

\* A scan of a string is the sequence of the positions it has reached, the
\* latest one last; each step appends the position after the part it takes.
Last(p) == p[Len(p)]

\* cls*: the longest run of characters of class cls
Skip(str, p, cls) == Append(p, Span(str, Last(p), cls))

\* c?: one character of class cls, if there is one
SkipOne(str, p, cls) ==
    Append(p, IF Last(p) <= Len(str) /\ str[Last(p)] \in cls
              THEN Last(p) + 1 ELSE Last(p))

(***************************************************************************)
(* Parsing helpers.                                                        *)
(***************************************************************************)
UNIT_ALIASES ==
    { <<<<"l", "t">>, "lt">>,
      <<<<"l", "e", "i", "t">>, "lt">>,
      <<<<"°", "l", "t">>, "lt">>,
      <<<<"k">>, "k">>,
      <<<<"k", "e", "l", "v", "i", "n">>, "k">>,
      <<<<"°", "k">>, "k">>,
      <<<<"c">>, "c">>,
      <<<<"c", "e", "l", "c", "i", "u", "s">>, "c">>,
      <<<<"c", "e", "l", "s", "i", "u", "s">>, "c">>,
      <<<<"°", "c">>, "c">>,
      <<<<"f">>, "f">>,
      <<<<"f", "a", "h", "r", "e", "n", "h", "e", "i", "t">>, "f">>,
      <<<<"°", "f">>, "f">> }

AliasKeys == {a[1] : a \in UNIT_ALIASES}

AliasOf(key) == (CHOOSE a \in UNIT_ALIASES : a[1] = key)[2]

UnknownUnitMsg(u) == <<"Unknown unit '", u, "'. Use one of: lt, k, c, f.">>

\* the lookup of key, the stripped and lower-cased token u
UnitOfKey(u, key) ==
    IF key \notin AliasKeys THEN Raise(UnknownUnitMsg(u))
    ELSE Return(AliasOf(key))

\* variant of normalize_unit: the token is not stripped
normalize_unit_NoStrip(u) == UnitOfKey(u, lower(u))

normalize_unit(u) == UnitOfKey(u, lower(strip(u)))

UnitChars == LetterSet \cup {"°"}

\* (?:\.\d+)?: a dot and at least one digit, or nothing
SkipFraction(str, p) ==
    Append(p, IF /\ Last(p) <= Len(str)
                 /\ str[Last(p)] = "."
                 /\ Span(str, Last(p) + 1, DigitSet) > Last(p) + 1
              THEN Span(str, Last(p) + 1, DigitSet) ELSE Last(p))

\* the scan of ^\s*[+-]?\d*(?:\.\d+)?\s*[a-zA-Z°]*\s*: the positions
\* <<1, p1, p2, p3, p4, p5, p6, p7>> at which its seven parts end.  Each
\* repetition is followed by a class disjoint from its own, so the regex
\* engine's greedy choice is the only one that can match.
ReScan(str) ==
    Skip(str,
         Skip(str,
              Skip(str,
                   SkipFraction(str,
                                Skip(str,
                                     SkipOne(str, Skip(str, <<1>>, Whitespace),
                                             {"+", "-"}),
                                     DigitSet)),
                   Whitespace),
              UnitChars),
         Whitespace)

\* the groups of a match that need not reach the end of the string
ReGroups(str, p) ==
    IF p[4] > p[3] /\ p[7] > p[6]
    THEN [matched |-> TRUE, g1 |-> SubSeq(str, p[2], p[5] - 1),
          g2 |-> SubSeq(str, p[6], p[7] - 1)]
    ELSE [matched |-> FALSE, g1 |-> <<>>, g2 |-> <<>>]

\* the match object: \d+ and [a-zA-Z°]+ are not empty and $ is at the end
ReMatch(str, p) ==
    IF p[8] = Len(str) + 1
    THEN ReGroups(str, p)
    ELSE [matched |-> FALSE, g1 |-> <<>>, g2 |-> <<>>]

\* variant of VALUE_UNIT_RE: the pattern without its final \s*$
VALUE_UNIT_RE_Unanchored(str) == ReGroups(str, ReScan(str))

\* _VALUE_UNIT_RE.match(s): ^\s*([+-]?\d+(?:\.\d+)?)\s*([a-zA-Z°]+)\s*$
VALUE_UNIT_RE(str) == ReMatch(str, ReScan(str))

(***************************************************************************)
(* float(str): surrounding whitespace is stripped, underscores are         *)
(* allowed between digits, then an optional sign and either inf, infinity  *)
(* or nan (any case) or a decimal number with an optional exponent; the    *)
(* value is the decimal number correctly rounded.                          *)
(***************************************************************************)
RECURSIVE DigitsToB(_)
DigitsToB(ds) ==
    IF ds = <<>> THEN <<>>
    ELSE BAdd(BMulSmall(DigitsToB(SubSeq(ds, 1, Len(ds) - 1)), 10),
              BFromInt(DigitVal(ds[Len(ds)])))

RECURSIVE DigitsToInt(_)
DigitsToInt(ds) ==
    IF ds = <<>> THEN 0
    ELSE DigitsToInt(SubSeq(ds, 1, Len(ds) - 1)) * 10 + DigitVal(ds[Len(ds)])

FloatErrMsg(str) == <<"could not convert string to float: ", str>>

UnderscoresOk(t) ==
    \A i \in 1..Len(t) :
        t[i] = "_" => /\ i > 1 /\ t[i - 1] \in DigitSet
                      /\ i < Len(t) /\ t[i + 1] \in DigitSet

\* (?:\.\d*)?: a dot and the digits after it, or nothing
SkipPoint(b, p) ==
    Append(p, IF Last(p) <= Len(b) /\ b[Last(p)] = "."
              THEN Span(b, Last(p) + 1, DigitSet) ELSE Last(p))

\* the scan of \d*(?:\.\d*)?(?:[eE][+-]?\d*)?: the positions
\* <<1, i1, i2, e1, e2, i3>> at which the integer digits, the fraction, the
\* exponent letter, the exponent sign and the exponent digits end
FloatScan(b) ==
    Skip(b,
         SkipOne(b, SkipOne(b, SkipPoint(b, Skip(b, <<1>>, DigitSet)), {"e", "E"}),
                 {"+", "-"}),
         DigitSet)

\* (-1)^s * mant * 10^e correctly rounded
FloatOfDecimal(s, mant, e) ==
    FRatio(s, BMul(mant, BPow10(Max(e, 0))), 0, BPow10(Max(0 - e, 0)))

\* the value of the exponent part b[p[4]..p[6]-1], 0 if there is none
FloatExponent(b, p) ==
    IF p[5] > p[4] /\ b[p[4]] = "-"
    THEN 0 - DigitsToInt(SubSeq(b, p[5], p[6] - 1))
    ELSE DigitsToInt(SubSeq(b, p[5], p[6] - 1))

\* the digits of the decimal number b scanned as p, without the point
FloatDigits(b, p) == SubSeq(b, 1, p[2] - 1) \o SubSeq(b, p[2] + 1, p[3] - 1)

\* the decimal number b scanned as p: it needs a digit, an exponent letter
\* before an exponent sign, a digit after an exponent letter, and nothing
\* after the scan
FloatOfScan(str, s, b, p) ==
    IF \/ FloatDigits(b, p) = <<>>
       \/ (p[4] = p[3] /\ p[5] > p[4])
       \/ (p[4] > p[3] /\ p[6] = p[5])
       \/ p[6] # Len(b) + 1
    THEN Raise(FloatErrMsg(str))
    ELSE Return(FloatOfDecimal(s, DigitsToB(FloatDigits(b, p)),
                               FloatExponent(b, p) - Max(0, p[3] - p[2] - 1)))

\* the unsigned text b of a float whose sign is s
FloatOfBody(str, s, b) ==
    IF lower(b) \in {<<"i", "n", "f">>, <<"i", "n", "f", "i", "n", "i", "t", "y">>}
    THEN Return(FInf(s))
    ELSE IF lower(b) = <<"n", "a", "n">> THEN Return(FNaN)
    ELSE FloatOfScan(str, s, b, FloatScan(b))

\* the text t of a float without its underscores
FloatOfText(str, t) ==
    FloatOfBody(str, IF t # <<>> /\ t[1] = "-" THEN 1 ELSE 0,
                IF t # <<>> /\ t[1] \in {"+", "-"} THEN Tail(t) ELSE t)

\* the stripped text t0 of a float
FloatOfStripped(str, t0) ==
    IF ~UnderscoresOk(t0) THEN Raise(FloatErrMsg(str))
    ELSE FloatOfText(str, SelectSeq(t0, LAMBDA c : c # "_"))

PyFloat(str) == FloatOfStripped(str, strip(str))

ProvideValueMsg == <<"Provide value with unit, e.g. '16Lt', '0 C', '373.15K', '-40F'.">>

\* float() cannot fail on a string the regex matched; the ValueError of
\* normalize_unit propagates
ParseGroups(val, unit) ==
    IF ~val.ok THEN val
    ELSE IF ~unit.ok THEN unit
    ELSE Return(<<val.val, unit.val>>)

ParseMatch(m) ==
    IF ~m.matched THEN Raise(ProvideValueMsg)
    ELSE ParseGroups(PyFloat(m.g1), normalize_unit(m.g2))

parse_value_with_unit(str) == ParseMatch(VALUE_UNIT_RE(str))

(***************************************************************************)
(* round(x, decimals) for decimals >= 0: the exact binary value rounded to *)
(* decimals places, ties to even, then converted back to a float.          *)
(***************************************************************************)
\* q / 10^decimals, q going up by one when the dropped part is above a
\* half, or is a half and q is odd
RoundHalfEven(s, q, half, rest, decimals) ==
    FRatio(s, IF half /\ (rest \/ BBit(q, 0) = 1) THEN BAdd(q, <<1>>) ELSE q,
           0, BPow10(decimals))

\* n / 2^sh rounded to an integer, over 10^decimals
RoundScaled(s, n, sh, decimals) ==
    RoundHalfEven(s, BShr(n, sh), BBit(n, sh - 1) = 1, ~BLowZero(n, sh - 1),
                  decimals)

PyRound(x, decimals) ==
    IF x.cls # "fin" \/ x.exp >= 0 THEN x
    ELSE RoundScaled(x.sgn, BMul(x.man, BPow10(decimals)), 0 - x.exp, decimals)

(***************************************************************************)
(* CLI.  A printed line is a record of the fields of its f-string.  The    *)
(* outcome of a command is what it printed to each stream and either its   *)
(* return value or the exception that left it.                             *)
(***************************************************************************)
NoFloat == FZero(0)

Line(kind, val, unit, val2, unit2, msg) ==
    [kind |-> kind, val |-> val, unit |-> unit, val2 |-> val2, unit2 |-> unit2,
     msg |-> msg]

\* f"Error: {e}"
ErrorLine(msg) == Line("error", NoFloat, "", NoFloat, "", <<"Error: ", msg>>)

Returned(ret, out, err) ==
    [raised |-> FALSE, exc |-> <<>>, ret |-> ret, stdout |-> out, stderr |-> err]

\* an exception leaves the command: nothing is returned
Raised(msg) ==
    [raised |-> TRUE, exc |-> msg, ret |-> -1, stdout |-> <<>>, stderr |-> <<>>]

format_output(inp_val, from_u, out_val, to_u, decimals) ==
    Line("result", PyRound(inp_val, decimals), upper(from_u),
         PyRound(out_val, decimals), upper(to_u), <<>>)

\* the end of cmd_convert: out is the outcome of convert
ConvertPrint(args, value, from_u, to_u, out) ==
    IF ~out.ok THEN Returned(1, <<>>, <<ErrorLine(out.msg)>>)
    ELSE Returned(0, <<format_output(value, from_u, out.val, to_u, args.decimals)>>,
                  <<>>)

\* the try block of cmd_convert: value is the outcome of float(args.value)
ConvertTry(args, from_u, to_u, value) ==
    IF ~value.ok THEN Returned(1, <<>>, <<ErrorLine(value.msg)>>)
    ELSE ConvertPrint(args, value.val, from_u, to_u,
                      convert(value.val, from_u, to_u))

\* cmd_convert after its two normalize_unit calls, which are outside the
\* try block
ConvertUnits(args, from_u, to_u) ==
    IF ~from_u.ok THEN Raised(from_u.msg)
    ELSE IF ~to_u.ok THEN Raised(to_u.msg)
    ELSE ConvertTry(args, from_u.val, to_u.val, PyFloat(args.value))

cmd_convert(args) ==
    ConvertUnits(args, normalize_unit(args.from_unit), normalize_unit(args.to_unit))

\* variant of ListRemove: pops the last element whatever x is
ListRemove_PopLast(l, x) == SubSeq(l, 1, Len(l) - 1)

\* list.remove(x): the list without the first occurrence of x
ListRemove(l, x) ==
    LET i == CHOOSE j \in 1..Len(l) : l[j] = x /\ \A k \in 1..(j - 1) : l[k] # x
    IN  SubSeq(l, 1, i - 1) \o SubSeq(l, i + 1, Len(l))

\* one entry of results: (t, float) or (t, f"Error: {e}"), r being the
\* outcome of convert(val, u, t)
AutoResult(t, r) ==
    IF r.ok THEN [t |-> t, isfloat |-> TRUE, v |-> r.val, text |-> <<>>]
    ELSE [t |-> t, isfloat |-> FALSE, v |-> NoFloat, text |-> <<"Error: ", r.msg>>]

\* the loop that fills results
AutoResults(val, u, targets) ==
    [i \in 1..Len(targets) |-> AutoResult(targets[i], convert(val, u, targets[i]))]

\* the lines cmd_auto prints
AutoPrint(val, u, results, decimals) ==
    <<Line("input", val, upper(u), NoFloat, "", <<>>)>>
    \o [i \in 1..Len(results) |->
          IF results[i].isfloat
          THEN Line("target", PyRound(results[i].v, decimals),
                    upper(results[i].t), NoFloat, "", <<>>)
          ELSE Line("target_error", NoFloat, upper(results[i].t),
                    NoFloat, "", results[i].text)]

\* cmd_auto after its try block
AutoTargets(val, u, decimals) ==
    Returned(0,
        AutoPrint(val, u, AutoResults(val, u, ListRemove(<<"lt", "k", "c", "f">>, u)),
                  decimals),
        <<>>)

\* variant of cmd_auto: the first failing target aborts the command
cmd_auto_AbortOnError(args) ==
    LET parsed == parse_value_with_unit(args.input)
        val == parsed.val[1]
        u == parsed.val[2]
        targets == ListRemove(<<"lt", "k", "c", "f">>, u)
        results == AutoResults(val, u, targets)
    IN  IF ~parsed.ok THEN Returned(1, <<>>, <<ErrorLine(parsed.msg)>>)
        ELSE IF \E i \in 1..Len(results) : ~results[i].isfloat
        THEN Returned(1, <<>>,
                 <<ErrorLine(convert(val, u, targets[1]).msg)>>)
        ELSE AutoTargets(val, u, args.decimals)

\* cmd_auto, parsed being the outcome of parse_value_with_unit(args.input)
AutoTry(args, parsed) ==
    IF ~parsed.ok THEN Returned(1, <<>>, <<ErrorLine(parsed.msg)>>)
    ELSE AutoTargets(parsed.val[1], parsed.val[2], args.decimals)

cmd_auto(args) == AutoTry(args, parse_value_with_unit(args.input))

\* approx(a, b, eps=1e-9)
approx(a, b) == FLt(FAbs(FSub(a, b)), FLit(1, 9))

\* the second call of a round trip; an error of the first call propagates
ConvertBack(r, a, b) == IF r.ok THEN convert(r.val, b, a) ELSE r

\* convert(convert(v, a, b), b, a)
RoundTrip(v, a, b) == ConvertBack(convert(v, a, b), a, b)

\* the assert on the outcome r of a round trip of v
RoundTripApprox(r, v) == r.ok /\ approx(r.val, v)

RoundTripOk(v, a, b) == RoundTripApprox(RoundTrip(v, a, b), v)

SelfTestLtK == {FLit(0, 1), FLit(160, 1), FLit(218575874, 7)}
SelfTestC == {FNeg(FLit(40, 0)), FLit(0, 0), FLit(100, 0)}
SelfTestF == {FNeg(FLit(40, 0)), FLit(32, 0), FLit(212, 0)}

\* the three loops of round trips: <<value, unit, unit>>
SelfTestTrips ==
    {<<val, "lt", "k">> : val \in SelfTestLtK}
    \cup {<<c, "c", "lt">> : c \in SelfTestC}
    \cup {<<f, "f", "lt">> : f \in SelfTestF}

\* the three asserts on the anchors: <<computed, expected>>
SelfTestAnchors ==
    { <<lt_to_k(FLit(160, 1)), FLit(27315, 2)>>,
      <<k_to_lt(FLit(27315, 2)), FLit(160, 1)>>,
      <<k_to_lt(FLit(37315, 2)), FDiv(FLit(37315, 2), K_PER_LT)>> }

\* a failed assert leaves the command as an AssertionError
cmd_self_test ==
    IF /\ \A a \in SelfTestAnchors : approx(a[1], a[2])
       /\ \A t \in SelfTestTrips : RoundTripOk(t[1], t[2], t[3])
    THEN Returned(0, <<Line("text", NoFloat, "", NoFloat, "",
                            <<"All self-tests passed.">>)>>, <<>>)
    ELSE Raised(<<"AssertionError">>)

(***************************************************************************)
(* Inputs.  MaxLen bounds the strings given to parse_value_with_unit and   *)
(* to the auto command, MaxTokLen the tokens given to normalize_unit,      *)
(* MaxDecimals the --decimals option.                                      *)
(***************************************************************************)
MaxLen == 4
MaxTokLen == 3
MaxDecimals == 2

\* all strings over alphabet of length 0..n
RECURSIVE StringsUpTo(_, _)
StringsUpTo(alphabet, n) ==
    IF n = 0 THEN {<<>>}
    ELSE LET shorter == StringsUpTo(alphabet, n - 1)
         IN  shorter \cup {Append(t, c) : t \in shorter, c \in alphabet}

ParseAlphabet == {"6", "-", ".", " ", "K", "°", "z"}
TokenAlphabet == {"k", "K", "°", " ", "x"}

\* values handed to convert(): the floats of these decimal strings
ConvValueStrings ==
    { <<"0", ".", "0">>, <<"-", "0", ".", "0">>, <<"1", "6">>,
      <<"2", "1", ".", "8", "5", "7", "5", "8", "7", "4">>, <<"-", "4", "0">>,
      <<"1", "0", "0">>, <<"3", "2">>, <<"2", "1", "2">>,
      <<"3", "7", "3", ".", "1", "5">>, <<"2", "7", "3", ".", "1", "5">>,
      <<"0", ".", "1">>, <<"-", "1">>, <<"-", "1", "e", "-", "9">>,
      <<"-", "2", "e", "-", "9">>, <<"-", "2", "7", "3", ".", "1", "5">>,
      <<"-", "2", "7", "3", ".", "1", "5", "0", "0", "0", "0", "0", "0", "0", "5">>,
      <<"-", "2", "7", "3", ".", "1", "5", "0", "0", "0", "0", "0", "0", "2">>,
      <<"-", "5", ".", "8", "e", "-", "1", "1">>,
      <<"-", "5", ".", "9", "e", "-", "1", "1">>,
      <<"-", "4", "5", "9", ".", "6", "7">>,
      <<"-", "4", "5", "9", ".", "6", "7", "0", "0", "0", "0", "0", "0", "1">>,
      <<"-", "4", "5", "9", ".", "6", "8">>, <<"-", "5", "0", "0">>,
      <<"6", "4", "1", "6", "5", "8", "2", "8">>,
      <<"9", "4", "3", "0", "7", "1", "8">>,
      <<"8", "8", "2", "8", "9", "4", "3">>, <<"i", "n", "f">>, <<"-", "i", "n", "f">>, <<"n", "a", "n">> }

\* the largest finite float, (2^53 - 1) * 2^971
FloatMax == FCanon(0, BSub(BShl(<<1>>, MantBits), <<1>>), ExpMax - MantBits)

ConvValues == {PyFloat(t).val : t \in ConvValueStrings} \cup {FloatMax}

\* convert() takes any string as a unit
ConvUnits == Unit \cup {"x", "kelvin"}

TokenInputs ==
    StringsUpTo(TokenAlphabet, MaxTokLen) \cup
    { <<"l", "t">>, <<"l", "e", "i", "t">>, <<"°", "l", "t">>, <<"k">>,
      <<"k", "e", "l", "v", "i", "n">>, <<"°", "k">>, <<"c">>,
      <<"c", "e", "l", "c", "i", "u", "s">>,
      <<"c", "e", "l", "s", "i", "u", "s">>, <<"°", "c">>, <<"f">>,
      <<"f", "a", "h", "r", "e", "n", "h", "e", "i", "t">>, <<"°", "f">>,
      <<"L", "T">>, <<" ", "L", "e", "i", "t", " ">>,
      <<"K", "e", "l", "v", "i", "n">>, <<"C", "E", "L", "S", "I", "U", "S">>,
      <<"F", "a", "h", "r", "e", "n", "h", "e", "i", "t", " ">>, <<"°", "C">>,
      <<"\t", "F", "\n">>, <<>>, <<"x">>, <<"k", "e", "l">>,
      <<"c", "°">>, <<"°", " ", "c">>, <<"l", " ", "t">>, <<"l", "t", "x">>,
      <<"c", "e", "n", "t", "i", "g", "r", "a", "d", "e">>, <<"°">> }

AutoExamples ==
    { <<"1", "6", "L", "t">>, <<"0", " ", "C">>, <<"-", "4", "0", "F">>,
      <<"3", "7", "3", ".", "1", "5", "K">>, <<"a", "b", "c">>, <<"1", "6">>,
      <<"-", "1", "K">>, <<"-", "3", "0", "0", "C">>,
      <<"-", "5", "0", "0", " ", "f">>,
      <<"-", "0", ".", "5", " ", "l", "e", "i", "t">>,
      <<"1", "6", " ", "L", "t", " ", "x">>, <<"1", "6", "°", "C">>,
      <<"5", " ", "k", "e", "l", "v", "i", "n">>, <<"5", " ", "k", "e", "l">>,
      <<"+", "5", ".", "5", " ", "°", "F", " ">>,
      <<"1", "0", "0", "c", "e", "l", "c", "i", "u", "s">>, <<"1", ".", "C">>,
      <<"-", "0", ".", "0", "0", "0", "0", "0", "0", "0", "0", "0", "1", "K">>,
      <<"6", "4", "1", "6", "5", "8", "2", "8", "L", "T">> }

ParseInputs == StringsUpTo(ParseAlphabet, MaxLen) \cup AutoExamples

CmdUnitTokens ==
    { <<"l", "t">>, <<"K">>, <<" ", "C", "e", "l", "s", "i", "u", "s", " ">>,
      <<"°", "f">>, <<"x">>, <<>>, <<"k", "e", "l", " ", "v", "i", "n">> }

CmdValueStrings ==
    { <<"1", "6">>, <<"-", "1">>, <<"a", "b", "c">>, <<>>, <<"n", "a", "n">>,
      <<"-", "3", "0", "0">>, <<"1", "e", "3">>, <<"0", ".", "0", "0", "5">>,
      <<" ", "2", "1", ".", "8", "5", "7", "5", "8", "7", "4", " ">> }

(***************************************************************************)
(* State: the last call (op, args), its outcome res, and for a round trip  *)
(* the call before it.  The program keeps no state between calls: a        *)
(* process runs one command and exits; the library functions are called    *)
(* once, and convert() a second time on its own result for a round trip.   *)
(***************************************************************************)
VARIABLES pc, op, args, res, first

vars == <<pc, op, args, res, first>>

Init ==
    /\ pc = "start"
    /\ op = "none"
    /\ args = <<>>
    /\ res = <<>>
    /\ first = <<>>

CallConvert ==
    /\ pc = "start"
    /\ \E v \in ConvValues, fu \in ConvUnits, tu \in ConvUnits :
           /\ pc' = "called"
           /\ op' = "convert"
           /\ args' = [value |-> v, from_unit |-> fu, to_unit |-> tu]
           /\ res' = convert(v, fu, tu)
           /\ UNCHANGED first

\* convert(convert(v, a, b), b, a): the second call of a round trip
CallConvertBack ==
    /\ pc = "called"
    /\ op = "convert"
    /\ res.ok
    /\ pc' = "back"
    /\ first' = [args |-> args, res |-> res]
    /\ args' = [value |-> res.val, from_unit |-> args.to_unit,
                to_unit |-> args.from_unit]
    /\ res' = convert(res.val, args.to_unit, args.from_unit)
    /\ UNCHANGED op

CallNormalizeUnit ==
    /\ pc = "start"
    /\ \E u \in TokenInputs :
           /\ pc' = "called"
           /\ op' = "normalize_unit"
           /\ args' = [u |-> u]
           /\ res' = normalize_unit(u)
           /\ UNCHANGED first

CallParse ==
    /\ pc = "start"
    /\ \E str \in ParseInputs :
           /\ pc' = "called"
           /\ op' = "parse_value_with_unit"
           /\ args' = [s |-> str]
           /\ res' = parse_value_with_unit(str)
           /\ UNCHANGED first

RunConvert ==
    /\ pc = "start"
    /\ \E fu \in CmdUnitTokens, tu \in CmdUnitTokens, v \in CmdValueStrings,
       d \in 0..MaxDecimals :
           /\ pc' = "exit"
           /\ op' = "cmd_convert"
           /\ args' = [from_unit |-> fu, to_unit |-> tu, value |-> v, decimals |-> d]
           /\ res' = cmd_convert(args')
           /\ UNCHANGED first

RunAuto ==
    /\ pc = "start"
    /\ \E str \in ParseInputs, d \in 0..MaxDecimals :
           /\ pc' = "exit"
           /\ op' = "cmd_auto"
           /\ args' = [input |-> str, decimals |-> d]
           /\ res' = cmd_auto(args')
           /\ UNCHANGED first

RunSelfTest ==
    /\ pc = "start"
    /\ pc' = "exit"
    /\ op' = "cmd_self_test"
    /\ args' = <<>>
    /\ res' = cmd_self_test
    /\ UNCHANGED first

NextConv == CallConvert \/ CallConvertBack

NextParse == CallNormalizeUnit \/ CallParse

NextCli == RunConvert \/ RunAuto \/ RunSelfTest

Next ==
    \/ CallConvert
    \/ CallConvertBack
    \/ CallNormalizeUnit
    \/ CallParse
    \/ RunConvert
    \/ RunAuto
    \/ RunSelfTest

Spec == Init /\ [][Next]_vars

SpecConv == Init /\ [][NextConv]_vars

SpecParse == Init /\ [][NextParse]_vars

SpecCli == Init /\ [][NextCli]_vars

(***************************************************************************)
(* Properties.                                                             *)
(***************************************************************************)
IsConvertCall == op = "convert" /\ pc \in {"called", "back"}

DomainRaised(r) == ~r.ok /\ r.msg = BelowZeroMsg

\* the Kelvin value convert() computes for a value given in unit u
KelvinOf(v, u) ==
    IF u = "lt" THEN lt_to_k(v)
    ELSE IF u = "k" THEN v
    ELSE IF u = "c" THEN c_to_k(v)
    ELSE f_to_k(v)

MinusEps == FNeg(FLit(1, 9))

\* C1 (as claimed): cmd_convert prints one "Error: ..." line to the error
\* stream and returns 1 whenever a unit token is unknown, the value is not
\* a number or the conversion is a domain violation, with no exception
\* escaping and no result line; otherwise it prints exactly one result line
\* to standard output and returns 0.
C1_ConvertErrorsUniform ==
    op = "cmd_convert" =>
        LET fu == normalize_unit(args.from_unit)
            tu == normalize_unit(args.to_unit)
            val == PyFloat(args.value)
            failing == \/ ~fu.ok
                       \/ ~tu.ok
                       \/ ~val.ok
                       \/ DomainRaised(convert(val.val, fu.val, tu.val))
        IN  /\ ~res.raised
            /\ IF failing
               THEN /\ res.ret = 1
                    /\ res.stdout = <<>>
                    /\ Len(res.stderr) = 1
                    /\ res.stderr[1].kind = "error"
               ELSE /\ res.ret = 0
                    /\ res.stderr = <<>>
                    /\ Len(res.stdout) = 1
                    /\ res.stdout[1].kind = "result"

\* C2 (as claimed): for every from-unit and to-unit of the closed set,
\* convert fails with the domain error exactly when the Kelvin equivalent of
\* the value is less than -1e-9.
C2_DomainRejectionAllPairs ==
    (IsConvertCall /\ args.from_unit \in Unit /\ args.to_unit \in Unit) =>
        (DomainRaised(res) <=> FLt(KelvinOf(args.value, args.from_unit), MinusEps))

\* C2 (amended): for every two different units of the closed set, convert
\* fails with the domain error exactly when the Kelvin equivalent of the
\* value is less than -1e-9, and returns a value otherwise.
C2_DomainRejection ==
    (/\ IsConvertCall
     /\ args.from_unit \in Unit
     /\ args.to_unit \in Unit
     /\ args.from_unit # args.to_unit) =>
        /\ DomainRaised(res) <=> FLt(KelvinOf(args.value, args.from_unit), MinusEps)
        /\ ~DomainRaised(res) => res.ok

\* a conversion between different units was rejected, and one whose Kelvin
\* value is exactly -1e-9 was not
C2_Witness ==
    /\ IsConvertCall
    /\ args.from_unit = "k"
    /\ args.to_unit = "c"
    /\ args.value = MinusEps
    /\ res.ok

C2_WitnessRejected ==
    /\ IsConvertCall
    /\ args.from_unit = "lt"
    /\ args.to_unit = "k"
    /\ DomainRaised(res)

\* C3: convert(v, U, U) returns exactly v for every unit U of the closed
\* set and every v, also below absolute zero, without an error.
C3_Identity ==
    (IsConvertCall /\ args.from_unit \in Unit /\ args.to_unit = args.from_unit) =>
        (res.ok /\ res.val = args.value)

\* an identity conversion of a value below absolute zero
C3_Witness ==
    /\ IsConvertCall
    /\ args.from_unit = "c"
    /\ args.to_unit = "c"
    /\ FLt(KelvinOf(args.value, "c"), MinusEps)
    /\ res.ok

\* C4 (as claimed): whenever from_unit or to_unit is outside the closed set,
\* convert fails with an "Unsupported ... unit" error, also when both are
\* the same unsupported string.
C4_ClosedUnitSet ==
    (IsConvertCall /\ (args.from_unit \notin Unit \/ args.to_unit \notin Unit)) =>
        /\ ~res.ok
        /\ res.msg[1] \in {"Unsupported 'from' unit: ", "Unsupported 'to' unit: "}

\* units in the fixed order lt, k, c, f without u, upper-cased
TargetsFor(u) ==
    IF u = "lt" THEN <<"K", "C", "F">>
    ELSE IF u = "k" THEN <<"LT", "C", "F">>
    ELSE IF u = "c" THEN <<"LT", "K", "F">>
    ELSE <<"LT", "K", "C">>

AutoParsed == op = "cmd_auto" /\ parse_value_with_unit(args.input).ok

AutoUnit == parse_value_with_unit(args.input).val[2]

\* C5: for an input that parses to (value, U), cmd_auto prints the input
\* echo line and then exactly three target lines, for lt, k, c, f without U
\* in that order.
C5_AutoTargetOrder ==
    AutoParsed =>
        /\ Len(res.stdout) = 4
        /\ res.stdout[1].kind = "input"
        /\ res.stdout[1].unit # ""
        /\ \A i \in 1..3 :
              /\ res.stdout[i + 1].kind \in {"target", "target_error"}
              /\ res.stdout[i + 1].unit = TargetsFor(AutoUnit)[i]
              /\ res.stdout[i + 1].unit # res.stdout[1].unit

C5_Witness ==
    /\ AutoParsed
    /\ AutoUnit = "k"
    /\ Len(res.stdout) = 4
    /\ res.stdout[2].unit = "LT"

\* C6: cmd_auto returns 1, with one "Error: ..." line on the error stream
\* and no target line, exactly when the parse fails; when the parse succeeds
\* it returns 0 and prints all three target lines, a failing target showing
\* its error message on its own line.
C6_AutoFailureLocal ==
    op = "cmd_auto" =>
        LET p == parse_value_with_unit(args.input)
        IN  /\ ~res.raised
            /\ res.ret = 1 <=> ~p.ok
            /\ ~p.ok => /\ res.stdout = <<>>
                        /\ Len(res.stderr) = 1
                        /\ res.stderr[1].kind = "error"
                        /\ res.stderr[1].msg = <<"Error: ", p.msg>>
            /\ p.ok =>  /\ res.ret = 0
                        /\ res.stderr = <<>>
                        /\ Len(res.stdout) = 4
                        /\ \A i \in 1..3 :
                              LET t == ListRemove(<<"lt", "k", "c", "f">>, p.val[2])[i]
                                  r == convert(p.val[1], p.val[2], t)
                                  ln == res.stdout[i + 1]
                              IN  IF r.ok
                                  THEN ln.kind = "target"
                                  ELSE /\ ln.kind = "target_error"
                                       /\ ln.msg = <<"Error: ", r.msg>>

\* a parsed input whose targets fail: the command still returns 0
C6_Witness ==
    /\ AutoParsed
    /\ res.ret = 0
    /\ Len(res.stdout) = 4
    /\ res.stdout[3].kind = "target_error"

C7_LtNames == {<<"l", "t">>, <<"l", "e", "i", "t">>, <<"°", "l", "t">>}
C7_KNames == {<<"k">>, <<"k", "e", "l", "v", "i", "n">>, <<"°", "k">>}
C7_CNames == {<<"c">>, <<"c", "e", "l", "c", "i", "u", "s">>, <<"c", "e", "l", "s", "i", "u", "s">>, <<"°", "c">>}
C7_FNames == {<<"f">>, <<"f", "a", "h", "r", "e", "n", "h", "e", "i", "t">>, <<"°", "f">>}

\* x and y are equal up to the case of their letters
CaseEq(x, y) ==
    /\ Len(x) = Len(y)
    /\ \A i \in 1..Len(x) :
          \/ x[i] = y[i]
          \/ \E j \in 1..26 : {x[i], y[i]} = {Lowers[j], Uppers[j]}

\* tok is one of the names, in any case, surrounded by whitespace
NamesToken(tok, nameSet) ==
    \E i \in 1..(Len(tok) + 1), j \in 0..Len(tok) :
        /\ \A k \in 1..(i - 1) : tok[k] \in Whitespace
        /\ \A k \in (j + 1)..Len(tok) : tok[k] \in Whitespace
        /\ \E nm \in nameSet : CaseEq(SubSeq(tok, i, j), nm)

ExpectedUnit(tok) ==
    IF NamesToken(tok, C7_LtNames) THEN "lt"
    ELSE IF NamesToken(tok, C7_KNames) THEN "k"
    ELSE IF NamesToken(tok, C7_CNames) THEN "c"
    ELSE IF NamesToken(tok, C7_FNames) THEN "f"
    ELSE "none"

\* C7: normalize_unit returns lt, k, c or f for a token that is, up to case
\* and surrounding whitespace, one of the aliases of that unit, and fails
\* with an "Unknown unit" error naming the token for every other token.
C7_NormalizeUnit ==
    op = "normalize_unit" =>
        IF ExpectedUnit(args.u) # "none"
        THEN res.ok /\ res.val = ExpectedUnit(args.u) /\ res.val \in Unit
        ELSE /\ ~res.ok
             /\ res.msg[1] = "Unknown unit '"
             /\ res.msg[2] = args.u

\* an alias in upper case with whitespace around it
C7_Witness ==
    /\ op = "normalize_unit"
    /\ args.u = <<" ", "K", " ">>
    /\ res.ok
    /\ res.val = "k"

\* str[a + 1 .. b] is: optional sign, digits, optional '.' and digits
IsNumberText(t) ==
    LET b == IF t # <<>> /\ t[1] \in {"+", "-"} THEN Tail(t) ELSE t
    IN  \E d \in 1..(Len(b) + 1) :
            /\ d > 1
            /\ \A k \in 1..(d - 1) : b[k] \in DigitSet
            /\ \/ d = Len(b) + 1
               \/ /\ b[d] = "."
                  /\ d < Len(b)
                  /\ \A k \in (d + 1)..Len(b) : b[k] \in DigitSet

\* the splits <<a, b, c, d>> of str into whitespace 1..a, number a+1..b,
\* whitespace b+1..c, unit letters c+1..d and whitespace d+1..Len(str)
ShapeSplits(str) ==
    LET n == Len(str)
    IN  {sp \in (0..n) \X (0..n) \X (0..n) \X (0..n) :
            /\ sp[1] < sp[2] /\ sp[2] <= sp[3] /\ sp[3] < sp[4]
            /\ \A k \in 1..sp[1] : str[k] \in Whitespace
            /\ IsNumberText(SubSeq(str, sp[1] + 1, sp[2]))
            /\ \A k \in (sp[2] + 1)..sp[3] : str[k] \in Whitespace
            /\ \A k \in (sp[3] + 1)..sp[4] : str[k] \in UnitChars
            /\ \A k \in (sp[4] + 1)..n : str[k] \in Whitespace}

\* the float a number text denotes
NumberValue(t) ==
    LET neg == t[1] = "-"
        b == IF t[1] \in {"+", "-"} THEN Tail(t) ELSE t
        ds == SelectSeq(b, LAMBDA c : c # ".")
        dot == IF \E k \in 1..Len(b) : b[k] = "."
               THEN CHOOSE k \in 1..Len(b) : b[k] = "." ELSE Len(b)
        v == FLit(DigitsToInt(ds), Len(b) - dot)
    IN  IF neg THEN FNeg(v) ELSE v

\* C8: parse_value_with_unit fails with "Provide value with unit" exactly on
\* the strings that are not of the shape sign? digits (. digits)? space*
\* letters space*; a string of the shape gives (value, unit) when its unit
\* token is an alias and the "Unknown unit" error otherwise; "16Lt", "0 C"
\* and "-40F" give (16.0, lt), (0.0, c) and (-40.0, f).
C8_ParseValueWithUnit ==
    op = "parse_value_with_unit" =>
        LET sps == ShapeSplits(args.s)
        IN  /\ (~res.ok /\ res.msg = ProvideValueMsg) <=> sps = {}
            /\ sps # {} =>
                 LET sp == CHOOSE x \in sps : TRUE
                     num == SubSeq(args.s, sp[1] + 1, sp[2])
                     tok == SubSeq(args.s, sp[3] + 1, sp[4])
                 IN  IF ExpectedUnit(tok) # "none"
                     THEN /\ res.ok
                          /\ res.val[1] = NumberValue(num)
                          /\ res.val[2] = ExpectedUnit(tok)
                     ELSE /\ ~res.ok
                          /\ res.msg[1] = "Unknown unit '"
            /\ args.s = <<"1", "6", "L", "t">> =>
                 res = Return(<<[cls |-> "fin", sgn |-> 0, man |-> <<1>>, exp |-> 4], "lt">>)
            /\ args.s = <<"0", " ", "C">> => res = Return(<<FZero(0), "c">>)
            /\ args.s = <<"-", "4", "0", "F">> =>
                 res = Return(<<[cls |-> "fin", sgn |-> 1, man |-> <<5>>, exp |-> 3], "f">>)

\* a signed fraction with a degree glyph in its unit parsed to a reading
C8_Witness ==
    /\ op = "parse_value_with_unit"
    /\ args.s = <<"+", "5", ".", "5", " ", "°", "F", " ">>
    /\ res.ok
    /\ res.val[2] = "f"

C8_WitnessUnknown ==
    /\ op = "parse_value_with_unit"
    /\ args.s = <<"6", "z">>
    /\ ~res.ok
    /\ res.msg[1] = "Unknown unit '"

RoundTripPairs == {<<"lt", "k">>, <<"c", "lt">>, <<"f", "lt">>}

\* v is a finite value whose Kelvin equivalent, given in unit u, is not
\* below absolute zero
NotBelowZero(v, u) == v.cls = "fin" /\ ~FLt(KelvinOf(v, u), ABSOLUTE_ZERO_K)

SelfTestValues(a) ==
    IF a = "lt" THEN SelfTestLtK ELSE IF a = "c" THEN SelfTestC ELSE SelfTestF

\* C9 (as claimed): for the pairs (lt, k), (c, lt), (f, lt) and every value
\* whose Kelvin equivalent is not below absolute zero, the round trip raises
\* no error and returns the value up to 1e-9.
C9_RoundTripAllValues ==
    (/\ pc = "back"
     /\ <<first.args.from_unit, first.args.to_unit>> \in RoundTripPairs
     /\ NotBelowZero(first.args.value, first.args.from_unit)) =>
        (res.ok /\ approx(res.val, first.args.value))

\* C9 (amended): for these pairs and every finite value whose Kelvin
\* equivalent is not below absolute zero, neither call of the round trip
\* raises an error; at the values of the self-test the result is within 1e-9
\* of the value.
C9_RoundTrip ==
    /\ (/\ pc = "called"
        /\ op = "convert"
        /\ <<args.from_unit, args.to_unit>> \in RoundTripPairs
        /\ NotBelowZero(args.value, args.from_unit)) => res.ok
    /\ (/\ pc = "back"
        /\ <<first.args.from_unit, first.args.to_unit>> \in RoundTripPairs
        /\ NotBelowZero(first.args.value, first.args.from_unit)) =>
           /\ res.ok
           /\ first.args.value \in SelfTestValues(first.args.from_unit)
                 => approx(res.val, first.args.value)

\* the round trip of 21.8575874 through Kelvin came back within 1e-9
C9_Witness ==
    /\ pc = "back"
    /\ first.args.from_unit = "lt"
    /\ first.args.to_unit = "k"
    /\ first.args.value = FLit(218575874, 7)
    /\ res.ok
    /\ approx(res.val, first.args.value)

\* C10: for a parsed input either all three target lines of cmd_auto show
\* numbers or all three show the domain error.
C10_AutoAllOrNothing ==
    AutoParsed =>
        /\ Len(res.stdout) = 4
        /\ \/ \A i \in 2..4 : res.stdout[i].kind = "target"
           \/ \A i \in 2..4 : /\ res.stdout[i].kind = "target_error"
                              /\ res.stdout[i].msg = <<"Error: ", BelowZeroMsg>>

\* a reading below absolute zero: all three lines show the domain error
C10_Witness ==
    /\ AutoParsed
    /\ AutoUnit = "c"
    /\ \A i \in 2..4 : res.stdout[i].kind = "target_error"

====
